---- MODULE Spec2Model ----
(***************************************************************************)
(* Model of functions/api/dictionary-lookup.ts: the retry-with-backoff     *)
(* wrapper, the Cloudflare AI invocation and the onRequest handler with    *)
(* its response cleaning, structural validation, language normalisation    *)
(* and translation filtering.                                              *)
(*                                                                         *)
(* JavaScript strings are sequences of one-character strings, so that      *)
(* toLowerCase and trim are computed.  JSON values are records             *)
(* [t, s, n]: t is the JavaScript type, s the characters of a string,      *)
(* n the value of a number.                                                *)
(***************************************************************************)
EXTENDS Integers, Sequences, FiniteSets, TLC

\* ------------------------------------------------------------------ bounds
\* largest maxRetries the generic wrapper is exercised with
MaxRetriesBound == 4
\* longest raw translations array of well-formed entries
MaxTranslations == 4
\* longest raw translations array over the full set of sample entries
MaxMixed == 2

\* ------------------------------------------------------- JavaScript values
Undef == [t |-> "undefined", s |-> <<>>, n |-> 0]
Null == [t |-> "null", s |-> <<>>, n |-> 0]
Str(chars) == [t |-> "string", s |-> chars, n |-> 0]
Num(k) == [t |-> "number", s |-> <<>>, n |-> k]

\* JavaScript truthiness (!v is ~Truthy(v))
Truthy(v) ==
    CASE v.t = "undefined" -> FALSE
      [] v.t = "null" -> FALSE
      [] v.t = "string" -> v.s # <<>>
      [] v.t = "number" -> v.n # 0
      [] OTHER -> TRUE

UpperChars == <<"A", "B", "C", "D", "E", "F", "G", "H", "I", "J", "K", "L", "M",
                "N", "O", "P", "Q", "R", "S", "T", "U", "V", "W", "X", "Y", "Z">>
LowerChars == <<"a", "b", "c", "d", "e", "f", "g", "h", "i", "j", "k", "l", "m",
                "n", "o", "p", "q", "r", "s", "t", "u", "v", "w", "x", "y", "z">>
WhiteSpace == {" ", "\t", "\n"}

LowerChar(c) ==
    IF \E i \in 1..Len(UpperChars) : UpperChars[i] = c
    THEN LowerChars[CHOOSE i \in 1..Len(UpperChars) : UpperChars[i] = c]
    ELSE c

\* String.prototype.toLowerCase
toLowerCase(chars) == [i \in 1..Len(chars) |-> LowerChar(chars[i])]

\* String.prototype.trim
trim(chars) ==
    LET idx == {i \in 1..Len(chars) : chars[i] \notin WhiteSpace}
    IN IF idx = {} THEN <<>>
       ELSE LET lo == CHOOSE i \in idx : \A j \in idx : i <= j
                hi == CHOOSE i \in idx : \A j \in idx : j <= i
            IN SubSeq(chars, lo, hi)

\* --------------------------------------------------- language normalisation
EnglishNames == {<<"e", "n", "g", "l", "i", "s", "h">>, <<"e", "n">>,
                 <<"e", "n", "-", "u", "s">>}
MalayNames == {<<"m", "a", "l", "a", "y">>, <<"m", "s">>,
               <<"b", "a", "h", "a", "s", "a">>,
               <<"b", "a", "h", "a", "s", "a", " ", "m", "e", "l", "a", "y", "u">>}
ChineseNames == {<<"c", "h", "i", "n", "e", "s", "e">>, <<"z", "h">>,
                 <<"z", "h", "-", "c", "n">>,
                 <<"m", "a", "n", "d", "a", "r", "i", "n">>,
                 <<"s", "i", "m", "p", "l", "i", "f", "i", "e", "d", " ",
                   "c", "h", "i", "n", "e", "s", "e">>,
                 <<"t", "r", "a", "d", "i", "t", "i", "o", "n", "a", "l", " ",
                   "c", "h", "i", "n", "e", "s", "e">>}

English == <<"E", "n", "g", "l", "i", "s", "h">>
Malay == <<"M", "a", "l", "a", "y">>
Chinese == <<"C", "h", "i", "n", "e", "s", "e">>
Canonical == {English, Malay, Chinese}

\* Result of a call that may throw: [threw, val] with val the returned value
\* or the message of the thrown Error.
Ret(v) == [threw |-> FALSE, val |-> v, msg |-> ""]
Throw(m) == [threw |-> TRUE, val |-> Null, msg |-> m]

NoToLowerCase == "lang.toLowerCase is not a function"

\* normalizeLanguage: null for a falsy or unrecognised label, the canonical
\* name for a synonym; a truthy non-string has no toLowerCase and throws.
normalizeLanguage(lang) ==
    IF ~Truthy(lang) THEN Ret(Null)
    ELSE IF lang.t # "string" THEN Throw(NoToLowerCase)
    ELSE LET lower == trim(toLowerCase(lang.s))
         IN IF lower \in EnglishNames THEN Ret(Str(English))
            ELSE IF lower \in MalayNames THEN Ret(Str(Malay))
            ELSE IF lower \in ChineseNames THEN Ret(Str(Chinese))
            ELSE Ret(Null)

\* ------------------------------------------------------ translation entries
\* An element of the raw translations array: t is its JavaScript type and
\* the five fields are Undef when the property is absent.
Entry(ty, l, w, x, e, p) ==
    [t |-> ty, language |-> l, word |-> w, explanation |-> x, example |-> e,
     pinyin |-> p]
NullEntry == Entry("null", Undef, Undef, Undef, Undef, Undef)

EntryTruthy(e) == e.t \notin {"null", "undefined"}

\* a map that omits pinyin from entries that are not Chinese
MapEntryOmitPinyin(e) ==
    IF ~EntryTruthy(e) THEN Ret(NullEntry)
    ELSE LET r == normalizeLanguage(e.language)
         IN IF r.threw THEN [threw |-> TRUE, val |-> NullEntry, msg |-> r.msg]
            ELSE IF ~Truthy(r.val) THEN Ret(NullEntry)
            ELSE Ret([e EXCEPT !.language = r.val,
                               !.pinyin = IF r.val.s = Chinese THEN @ ELSE Undef])

\* the callback of .map: null for a dropped entry, else the entry with its
\* language replaced; throws when normalizeLanguage throws
MapEntry(e) ==
    IF ~EntryTruthy(e) THEN Ret(NullEntry)
    ELSE LET r == normalizeLanguage(e.language)
         IN IF r.threw THEN [threw |-> TRUE, val |-> NullEntry, msg |-> r.msg]
            ELSE IF ~Truthy(r.val) THEN Ret(NullEntry)
            ELSE Ret([e EXCEPT !.language = r.val])

NonEmptyString(v) == v.t = "string" /\ trim(v.s) # <<>>

\* a filter that forgets to check example
FilterEntryNoExample(e) ==
    /\ EntryTruthy(e)
    /\ e.language.t = "string"
    /\ NonEmptyString(e.word)
    /\ NonEmptyString(e.explanation)

\* the callback of .filter
FilterEntry(e) ==
    /\ EntryTruthy(e)
    /\ e.language.t = "string"
    /\ NonEmptyString(e.word)
    /\ NonEmptyString(e.explanation)
    /\ NonEmptyString(e.example)

\* a filter followed by .slice(0, 3)
SelectEntriesCapped(es) ==
    LET kept == SelectSeq(es, FilterEntry)
    IN SubSeq(kept, 1, IF Len(kept) < 3 THEN Len(kept) ELSE 3)

RECURSIVE SelectEntries(_)
SelectEntries(es) ==
    IF es = <<>> THEN <<>>
    ELSE IF FilterEntry(Head(es)) THEN <<Head(es)>> \o SelectEntries(Tail(es))
    ELSE SelectEntries(Tail(es))

\* jsonResponse.translations.map(...).filter(...)
sanitizedTranslations(items) ==
    LET mapped == [i \in 1..Len(items) |-> MapEntry(items[i])]
        bad == {i \in 1..Len(items) : mapped[i].threw}
    IN IF bad # {}
       THEN [threw |-> TRUE, val |-> <<>>,
             msg |-> mapped[CHOOSE i \in bad : \A j \in bad : i <= j].msg]
       ELSE [threw |-> FALSE, msg |-> "",
             val |-> SelectEntries([i \in 1..Len(items) |-> mapped[i].val])]

\* ------------------------------------------------------------ model replies
\* A parsed JSON value as the handler reads it: its type, its
\* sourceLanguage property and its translations property (type and, for an
\* array, elements).  An absent property is Undef / type "undefined".
Reply(ty, sl, trT, items) ==
    [t |-> ty, sourceLanguage |-> sl, translations |-> [t |-> trT, items |-> items]]
NoReply == Reply("undefined", Undef, "undefined", <<>>)

\* The text of a reply is a sequence of chunks: an opening fence tagged json,
\* a bare fence, a fence tagged JSON, white space, prose, or the JSON text of a
\* value v.
Chunk(k, v) == [k |-> k, v |-> v]
FenceJson == Chunk("fence_json", NoReply)
Fence == Chunk("fence", NoReply)
FenceUpper == Chunk("fence_JSON", NoReply)
Ws == Chunk("ws", NoReply)
Prose == Chunk("prose", NoReply)
Json(v) == Chunk("json", v)

RECURSIVE RemoveChunk(_, _)
RemoveChunk(text, k) ==
    IF text = <<>> THEN <<>>
    ELSE IF Head(text).k = k THEN RemoveChunk(Tail(text), k)
    ELSE <<Head(text)>> \o RemoveChunk(Tail(text), k)

\* the second .replace: a bare fence vanishes, a fence tagged JSON leaves JSON
StripFence(text) ==
    LET t1 == RemoveChunk(text, "fence")
    IN [i \in 1..Len(t1) |-> IF t1[i].k = "fence_JSON" THEN Prose ELSE t1[i]]

\* trim of a text: white-space chunks at both ends go
trimText(text) ==
    LET idx == {i \in 1..Len(text) : text[i].k # "ws"}
    IN IF idx = {} THEN <<>>
       ELSE LET lo == CHOOSE i \in idx : \A j \in idx : i <= j
                hi == CHOOSE i \in idx : \A j \in idx : j <= i
            IN SubSeq(text, lo, hi)

\* responseText.replace(fence json).replace(fence).trim()
cleanedResponse(text) == trimText(StripFence(RemoveChunk(text, "fence_json")))

UnexpectedToken == "Unexpected token in JSON"

\* JSON.parse: exactly one JSON value, white space around it allowed
JSONparse(text) ==
    LET body == RemoveChunk(text, "ws")
    IN IF Len(body) = 1 /\ body[1].k = "json"
       THEN [threw |-> FALSE, val |-> body[1].v, msg |-> ""]
       ELSE [threw |-> TRUE, val |-> NoReply, msg |-> UnexpectedToken]

\* ------------------------------------------------------------ HTTP responses
Response(st, ks, err, det, sl, tr) ==
    [status |-> st, keys |-> ks, error |-> err, details |-> det,
     sourceLanguage |-> sl, translations |-> tr]
NoResponse == Response(0, {}, "", "", Undef, <<>>)
MissingText == Response(400, {"error"}, "Missing text input", "", Undef, <<>>)
LookupFailed(m) ==
    Response(500, {"error", "details"}, "Dictionary lookup failed", m, Undef, <<>>)
Sanitized(sl, tr) == Response(200, {"sourceLanguage", "translations"}, "", "", sl, tr)

InvalidStructure == "Invalid data structure from AI model"
ReadOfNull == "Cannot read properties of null"

\* onRequest after retryWithBackoff has returned responseText: clean, parse,
\* validate, sanitise, respond; every throw lands in the catch of onRequest.
Process(responseText) ==
    LET p == JSONparse(cleanedResponse(responseText))
        j == p.val
    IN IF p.threw THEN LookupFailed(p.msg)
       ELSE IF j.t = "null" THEN LookupFailed(ReadOfNull)
       ELSE IF ~Truthy(j.sourceLanguage) \/ j.translations.t # "array"
            THEN LookupFailed(InvalidStructure)
       ELSE LET st == sanitizedTranslations(j.translations.items)
                sl == normalizeLanguage(j.sourceLanguage)
            IN IF st.threw THEN LookupFailed(st.msg)
               ELSE IF sl.threw THEN LookupFailed(sl.msg)
               ELSE Sanitized(IF Truthy(sl.val) THEN sl.val ELSE Str(English),
                              st.val)

\* ------------------------------------------------------- thrown values
\* A thrown value: an Error with a message, or a non-Error whose String() is msg
Thrown(isErr, m) == [isError |-> isErr, msg |-> m]
NoError == Thrown(FALSE, "")

\* error instanceof Error ? error : new Error(String(error))
ToError(e) == IF e.isError THEN e ELSE Thrown(TRUE, e.msg)

\* ------------------------------------------------------- callCloudflareAI
\* What env.AI.run does: throws err, or resolves to an object with a
\* response property, a bare string, or any other value.  text is the
\* string when the (property) value is one, else other is the value
\* (a JavaScript value when shape is "object", a JSON value otherwise).
ServiceResponse(shape, err, isStr, text, other, otherReply) ==
    [shape |-> shape, err |-> err, isString |-> isStr, text |-> text,
     other |-> other, otherReply |-> otherReply]

EmptyResponse == "Empty response from Cloudflare AI"
NoTrim == "responseText.trim is not a function"

Outcome(threw, text, err) == [threw |-> threw, text |-> text, err |-> err]

\* an emptiness check that misses all-white-space text
EmptyTextNoTrim(text) == text = <<>>

EmptyText(text) == text = <<>> \/ trimText(text) = <<>>

callCloudflareAI(resp) ==
    IF resp.shape = "throw" THEN Outcome(TRUE, <<>>, resp.err)
    ELSE IF resp.shape = "object" /\ ~resp.isString
         THEN \* responseText is response.response, not a string
              IF ~Truthy(resp.other)
              THEN Outcome(TRUE, <<>>, Thrown(TRUE, EmptyResponse))
              ELSE Outcome(TRUE, <<>>, Thrown(TRUE, NoTrim))
    ELSE IF resp.shape \in {"object", "string"}
         THEN IF EmptyText(resp.text)
              THEN Outcome(TRUE, <<>>, Thrown(TRUE, EmptyResponse))
              ELSE Outcome(FALSE, resp.text, NoError)
    ELSE \* JSON.stringify(response); undefined stringifies to undefined
         IF resp.otherReply.t = "undefined"
         THEN Outcome(TRUE, <<>>, Thrown(TRUE, EmptyResponse))
         ELSE Outcome(FALSE, <<Json(resp.otherReply)>>, NoError)

\* ------------------------------------------------------------ sample inputs
Hi == <<"h", "i">>
Blank == <<" ", "\n">>

ZhEntry == Entry("object", Str(<<"M", "a", "n", "d", "a", "r", "i", "n">>),
                 Str(Hi), Str(Hi), Str(Hi), Str(Hi))
EnEntry == Entry("object", Str(<<" ", "E", "N", " ">>),
                 Str(Hi), Str(Hi), Str(<<" ", "h", "i">>), Str(Hi))
MsEntry == Entry("object", Str(<<"B", "a", "h", "a", "s", "a">>),
                 Str(Hi), Str(Hi), Str(Hi), Undef)
CoreEntries == {ZhEntry, EnEntry, MsEntry}

RawEntries ==
    CoreEntries \cup
    { NullEntry,
      Entry("number", Undef, Undef, Undef, Undef, Undef),
      Entry("object", Str(<<"F", "r", "e", "n", "c", "h">>), Str(Hi), Str(Hi), Str(Hi), Undef),
      Entry("object", Num(42), Str(Hi), Str(Hi), Str(Hi), Undef),
      Entry("object", Undef, Str(Hi), Str(Hi), Str(Hi), Undef),
      Entry("object", Str(<<"z", "h">>), Str(Hi), Undef, Str(Hi), Str(Hi)),
      Entry("object", Str(<<"e", "n">>), Str(Blank), Str(Hi), Str(Hi), Undef),
      Entry("object", Str(<<"m", "s">>), Str(Hi), Str(Hi), Num(7), Undef) }

SeqsUpTo(S, k) == UNION {[1..m -> S] : m \in 0..k}

RawTranslations == SeqsUpTo(CoreEntries, MaxTranslations) \cup SeqsUpTo(RawEntries, MaxMixed)

SourceLanguages ==
    { Str(English), Str(<<"z", "h", "-", "C", "N">>), Str(<<"m", "s", " ">>),
      Str(<<"F", "r", "e", "n", "c", "h">>), Str(Blank), Str(<<>>),
      Undef, Null, Num(0), Num(42) }

ReplyValues ==
    {Reply("object", Str(English), "array", items) : items \in RawTranslations}
    \cup {Reply("object", sl, "array", items) :
              sl \in SourceLanguages, items \in SeqsUpTo(CoreEntries, 1)}
    \cup {Reply("object", sl, trT, <<>>) :
              sl \in {Str(English), Undef}, trT \in {"undefined", "string", "object"}}
    \cup {Reply("null", Undef, "undefined", <<>>),
          Reply("number", Undef, "undefined", <<>>)}

WrappedValues ==
    { Reply("object", Str(English), "array", <<ZhEntry, MsEntry>>),
      Reply("object", Undef, "array", <<>>) }

Texts ==
    {<<Json(v)>> : v \in ReplyValues}
    \cup {<<FenceJson, Ws, Json(v), Ws, Fence>> : v \in WrappedValues}
    \cup {<<FenceUpper, Ws, Json(v), Ws, Fence>> : v \in WrappedValues}
    \cup {<<Prose, Ws, Json(v)>> : v \in WrappedValues}
    \cup {<<Json(v), Json(v)>> : v \in WrappedValues}
    \cup {<<Prose>>, <<Fence, Fence>>}

ServiceErrors == {Thrown(TRUE, "AI unavailable"), Thrown(FALSE, "rate limited")}

ServiceResponses ==
    {ServiceResponse("throw", e, FALSE, <<>>, Undef, NoReply) : e \in ServiceErrors}
    \cup {ServiceResponse("object", NoError, TRUE, tx, Undef, NoReply) :
              tx \in Texts \cup {<<>>, <<Ws>>, <<Ws, Ws>>}}
    \cup {ServiceResponse("object", NoError, FALSE, <<>>, v, NoReply) :
              v \in {Undef, Null, Num(0), Num(42)}}
    \cup {ServiceResponse("string", NoError, TRUE, tx, Undef, NoReply) :
              tx \in {<<>>, <<Ws>>, <<Prose>>} \cup {<<Json(v)>> : v \in WrappedValues}}
    \cup {ServiceResponse("other", NoError, FALSE, <<>>, Undef, v) :
              v \in WrappedValues \cup {NoReply, Reply("null", Undef, "undefined", <<>>)}}

\* A request body: whether request.json() parses it, the type of the parsed
\* value, and its text property (Undef when absent).
Body(parses, ty, text) == [parses |-> parses, t |-> ty, text |-> text]
NoBody == Body(FALSE, "none", Undef)
RequestBodies ==
    { Body(FALSE, "undefined", Undef),
      Body(TRUE, "null", Undef),
      Body(TRUE, "number", Undef),
      Body(TRUE, "object", Undef),
      Body(TRUE, "object", Null),
      Body(TRUE, "object", Str(<<>>)),
      Body(TRUE, "object", Num(0)),
      Body(TRUE, "object", Str(Hi)),
      Body(TRUE, "object", Str(Blank)),
      Body(TRUE, "object", Num(5)) }

\* outcomes of the operation handed to the generic wrapper
FnOutcomes ==
    {Outcome(FALSE, tx, NoError) : tx \in {<<Prose>>, <<Fence, Fence>>}}
    \cup {Outcome(TRUE, <<>>, e) :
              e \in ServiceErrors \cup {Thrown(TRUE, EmptyResponse)}}

\* the arguments onRequest passes to retryWithBackoff
MaxRetriesArg == 5
BaseDelayArg == 1000

\* -------------------------------------------------------------------- state
VARIABLES
    pc,           \* "idle", "attempt", "wait", "retried", "done"
    body,         \* the request body onRequest received
    maxRetries,   \* retryWithBackoff parameter
    baseDelayMs,  \* retryWithBackoff parameter
    attempt,      \* loop variable of retryWithBackoff
    lastError,    \* local of retryWithBackoff
    result,       \* how retryWithBackoff settled: none / return text / throw err
    response,     \* the Response onRequest returned
    attempts,     \* history: number of calls of fn
    aiCalls,      \* history: number of calls of env.AI.run
    delays,       \* history: the setTimeout delays awaited, in order
    failCount,    \* history: number of failed calls of fn
    lastFailure,  \* history: the value the latest failed call of fn threw
    fnReturned    \* history: the value the latest successful call of fn returned

vars == <<pc, body, maxRetries, baseDelayMs, attempt, lastError, result,
          response, attempts, aiCalls, delays, failCount, lastFailure,
          fnReturned>>

Settled(kind, text, err) == [kind |-> kind, text |-> text, err |-> err]
Unsettled == Settled("none", <<>>, NoError)

RECURSIVE Pow2(_)
Pow2(k) == IF k = 0 THEN 1 ELSE 2 * Pow2(k - 1)

\* the delay computed at line 62
Delay(base, att) == base * Pow2(att)

\* more attempts remain after a failure of attempt att (line 60)
MoreAttempts(att, maxR) == att < maxR - 1

\* a catch block that keeps the first error it saw
CaughtKeepsFirst(prev, e) == IF prev = NoError THEN ToError(e) ELSE prev

\* what the catch block stores in lastError (line 58)
Caught(prev, e) == ToError(e)

\* a loop that records the value but does not leave on success
RetryReturnNoBreak(text) ==
    /\ result' = Settled("return", text, NoError)
    /\ attempts' = attempts + 1
    /\ attempt' = attempt + 1
    /\ pc' = IF attempt + 1 < maxRetries THEN "attempt" ELSE "retried"
    /\ UNCHANGED <<lastError, delays, failCount, lastFailure>>

\* try { return await fn() }: fn resolved with text
RetryReturn(text) ==
    /\ pc' = "retried"
    /\ result' = Settled("return", text, NoError)
    /\ attempts' = attempts + 1
    /\ UNCHANGED <<attempt, lastError, delays, failCount, lastFailure>>

\* catch (error): fn threw e; wait if attempts remain, else leave the loop
\* and throw lastError
RetryCatch(e) ==
    /\ lastError' = Caught(lastError, e)
    /\ attempts' = attempts + 1
    /\ failCount' = failCount + 1
    /\ lastFailure' = e
    /\ IF MoreAttempts(attempt, maxRetries)
       THEN /\ delays' = Append(delays, Delay(baseDelayMs, attempt))
            /\ pc' = "wait"
            /\ UNCHANGED <<attempt, result>>
       ELSE /\ attempt' = attempt + 1
            /\ pc' = "retried"
            /\ result' = Settled("throw", <<>>, lastError')
            /\ UNCHANGED delays

\* the timer of line 64 fires: attempt++ and the next iteration starts
Wait ==
    /\ pc = "wait"
    /\ attempt' = attempt + 1
    /\ pc' = "attempt"
    /\ UNCHANGED <<body, maxRetries, baseDelayMs, lastError, result, response,
                   attempts, aiCalls, delays, failCount, lastFailure,
                   fnReturned>>

\* one iteration of retryWithBackoff around an arbitrary operation
FnAttempt ==
    /\ pc = "attempt"
    /\ \E o \in FnOutcomes :
          /\ IF o.threw THEN RetryCatch(o.err) ELSE RetryReturn(o.text)
          /\ fnReturned' = IF o.threw THEN fnReturned ELSE o.text
    /\ UNCHANGED <<body, maxRetries, baseDelayMs, response, aiCalls>>

\* one iteration of retryWithBackoff around callCloudflareAI
AIAttempt ==
    /\ pc = "attempt"
    /\ \E resp \in ServiceResponses :
          LET o == callCloudflareAI(resp)
          IN /\ IF o.threw THEN RetryCatch(o.err) ELSE RetryReturn(o.text)
             /\ fnReturned' = IF o.threw THEN fnReturned ELSE o.text
    /\ aiCalls' = aiCalls + 1
    /\ UNCHANGED <<body, maxRetries, baseDelayMs, response>>

\* onRequest up to the call of retryWithBackoff (lines 105-122)
ReceiveRequest ==
    /\ pc = "idle"
    /\ \E b \in RequestBodies :
          /\ body' = b
          /\ IF ~b.parses
             THEN /\ response' = LookupFailed(UnexpectedToken)
                  /\ pc' = "done"
                  /\ UNCHANGED <<maxRetries, baseDelayMs>>
             ELSE IF b.t \in {"null", "undefined"}
             THEN /\ response' = LookupFailed("Cannot destructure property 'text'")
                  /\ pc' = "done"
                  /\ UNCHANGED <<maxRetries, baseDelayMs>>
             ELSE IF ~Truthy(b.text)
             THEN /\ response' = MissingText
                  /\ pc' = "done"
                  /\ UNCHANGED <<maxRetries, baseDelayMs>>
             ELSE /\ maxRetries' = MaxRetriesArg
                  /\ baseDelayMs' = BaseDelayArg
                  /\ pc' = "attempt"
                  /\ UNCHANGED response
    /\ UNCHANGED <<attempt, lastError, result, attempts, aiCalls, delays,
                   failCount, lastFailure, fnReturned>>

\* onRequest after retryWithBackoff settled (lines 124-215)
Respond ==
    /\ pc = "retried"
    /\ response' = IF result.kind = "throw" THEN LookupFailed(result.err.msg)
                   ELSE Process(result.text)
    /\ pc' = "done"
    /\ UNCHANGED <<body, maxRetries, baseDelayMs, attempt, lastError, result,
                   attempts, aiCalls, delays, failCount, lastFailure,
                   fnReturned>>

InitLocals ==
    /\ attempt = 0
    /\ lastError = NoError
    /\ result = Unsettled
    /\ response = NoResponse
    /\ attempts = 0
    /\ aiCalls = 0
    /\ delays = <<>>
    /\ failCount = 0
    /\ lastFailure = NoError
    /\ fnReturned = <<>>

\* a request arrives at onRequest
Init ==
    /\ pc = "idle"
    /\ body = NoBody
    /\ maxRetries = 0
    /\ baseDelayMs = 0
    /\ InitLocals

Next == ReceiveRequest \/ AIAttempt \/ Wait \/ Respond

Spec == Init /\ [][Next]_vars

\* retryWithBackoff called on its own with maxRetries >= 1
InitRetry ==
    /\ pc = "attempt"
    /\ body = NoBody
    /\ maxRetries \in 1..MaxRetriesBound
    /\ baseDelayMs \in {1, BaseDelayArg}
    /\ InitLocals

NextRetry == FnAttempt \/ Wait

SpecRetry == InitRetry /\ [][NextRetry]_vars

\* ------------------------------------------------- the retry wrapper alone
Settles == pc = "retried"

\* C1: when the operation fails exactly k < maxRetries times and then
\* succeeds, the wrapper returns that success value after exactly k+1 attempts
\* and exactly k delays, and nothing is attempted or awaited after the success.
C1_ReturnsAfterKFailures ==
    /\ [](Settles /\ result.kind = "return" =>
            /\ failCount < maxRetries
            /\ result.text = fnReturned
            /\ attempts = failCount + 1
            /\ Len(delays) = failCount)
    /\ [][result.kind = "return" => attempts' = attempts /\ delays' = delays]_vars

C1_Witness ==
    /\ Settles
    /\ result.kind = "return"
    /\ failCount = 2
    /\ attempts = 3
    /\ Len(delays) = 2

RECURSIVE SumSeq(_)
SumSeq(q) == IF q = <<>> THEN 0 ELSE Head(q) + SumSeq(Tail(q))

\* C10: the delay after failed attempt number a is baseDelay * 2^a, and with
\* maxRetries 5 and one unit of 1000 ms the run in which every attempt fails
\* waits 1, 2, 4, 8, 16 units, 31 units in all, across 5 calls.
C10_WorstCaseWait ==
    /\ \A i \in 1..Len(delays) : delays[i] = baseDelayMs * Pow2(i - 1)
    /\ (Settles /\ result.kind = "throw" =>
            /\ aiCalls = 5
            /\ delays = <<1000, 2000, 4000, 8000, 16000>>
            /\ SumSeq(delays) = 31000)

\* ------------------------------------------------------------ the handler
Done == pc = "done"

\* the reply onRequest parsed, when retryWithBackoff returned a text
Parsed == JSONparse(cleanedResponse(result.text))
Items == Parsed.val.translations.items

\* the label is one of the synonyms of a canonical name
Recognised(v) ==
    /\ v.t = "string"
    /\ trim(toLowerCase(v.s)) \in EnglishNames \cup MalayNames \cup ChineseNames

CanonicalOf(v) ==
    LET l == trim(toLowerCase(v.s))
    IN IF l \in EnglishNames THEN English
       ELSE IF l \in MalayNames THEN Malay ELSE Chinese

\* the raw entry is one the output must keep
Passes(e) ==
    /\ e.t \notin {"null", "undefined"}
    /\ Recognised(e.language)
    /\ NonEmptyString(e.word)
    /\ NonEmptyString(e.explanation)
    /\ NonEmptyString(e.example)

\* the indices of the raw entries the output must keep, in input order
RECURSIVE KeptFrom(_, _)
KeptFrom(items, i) ==
    IF i > Len(items) THEN <<>>
    ELSE IF Passes(items[i]) THEN <<i>> \o KeptFrom(items, i + 1)
    ELSE KeptFrom(items, i + 1)
Kept(items) == KeptFrom(items, 1)

Expected(items) ==
    LET k == Kept(items)
    IN [i \in 1..Len(k) |->
           [items[k[i]] EXCEPT !.language = Str(CanonicalOf(items[k[i]].language))]]

\* the request got as far as a reply that passes structural validation
Validated ==
    /\ Done
    /\ result.kind = "return"
    /\ ~Parsed.threw
    /\ Parsed.val.t = "object"
    /\ Parsed.val.translations.t = "array"

TextMissing == body.parses /\ (body.t # "object" \/ ~Truthy(body.text))

\* C3: a request whose body has no text, or a falsy one, is answered with
\* HTTP 400 {"error":"Missing text input"} and no call of the service.
C3_MissingText ==
    Done /\ TextMissing => response = MissingText /\ aiCalls = 0

\* C4: the output translations are exactly the raw entries that are non-null,
\* have a language that normalises and string fields non-empty after trimming,
\* in input order, language replaced by the canonical name; an entry whose
\* language does not normalise is dropped and its valid siblings are kept.
C4_ExactSubsequence ==
    Validated /\ Recognised(Parsed.val.sourceLanguage) =>
        /\ response.status = 200
        /\ response.translations = Expected(Items)

\* C5: every response is HTTP 200 with a canonical sourceLanguage and
\* translations whose entries have a canonical language and non-empty word,
\* explanation and example; or HTTP 400 for missing input; or HTTP 500 with
\* the error envelope; nothing in between.
C5_ThreeForms ==
    /\ (~Done => response = NoResponse)
    /\ (Done =>
          \/ /\ response.status = 200
             /\ response.keys = {"sourceLanguage", "translations"}
             /\ response.sourceLanguage.t = "string"
             /\ response.sourceLanguage.s \in Canonical
             /\ \A i \in 1..Len(response.translations) :
                   LET e == response.translations[i]
                   IN /\ e.t = "object"
                      /\ e.language.t = "string"
                      /\ e.language.s \in Canonical
                      /\ NonEmptyString(e.word)
                      /\ NonEmptyString(e.explanation)
                      /\ NonEmptyString(e.example)
          \/ /\ response = MissingText
             /\ ~Truthy(body.text)
          \/ /\ response.status = 500
             /\ response.keys = {"error", "details"}
             /\ response.error = "Dictionary lookup failed"
             /\ response.details # ""
             /\ response.translations = <<>>)

C5_Witness ==
    /\ Done
    /\ response.status = 200
    /\ Len(Items) = 2
    /\ Len(response.translations) = 1

\* no entry of the reply makes normalizeLanguage throw
LabelsAreStrings ==
    \A i \in 1..Len(Items) :
        ~Truthy(Items[i].language) \/ Items[i].language.t = "string"

\* C6: a reply whose sourceLanguage is present, whatever its value, and whose
\* translations is a sequence passes validation: HTTP 200 with the canonical
\* name of the value, or English when the value does not resolve.
C6_PresentSourceLanguage ==
    Validated /\ Parsed.val.sourceLanguage.t # "undefined" /\ LabelsAreStrings =>
        /\ response.status = 200
        /\ response.sourceLanguage =
              IF Recognised(Parsed.val.sourceLanguage)
              THEN Str(CanonicalOf(Parsed.val.sourceLanguage))
              ELSE Str(English)

\* C7 as stated: a 200 result holds at most 3 translations
C7_AtMostThree ==
    Done /\ response.status = 200 => Len(response.translations) <= 3

\* C7: a 200 result holds one translation per raw entry that passes the
\* filter, so between 0 and the length of the raw sequence, which can be
\* more than 3.
C7_OnePerPassingEntry ==
    Done /\ response.status = 200 =>
        /\ Len(response.translations) =
              Cardinality({i \in 1..Len(Items) : Passes(Items[i])})
        /\ Len(response.translations) <= Len(Items)

C7_Witness ==
    /\ Done
    /\ response.status = 200
    /\ Len(response.translations) = 4

\* C8 as stated: in a 200 result only Chinese entries carry pinyin
C8_PinyinOnlyChinese ==
    Done /\ response.status = 200 =>
        \A i \in 1..Len(response.translations) :
            response.translations[i].pinyin.t # "undefined" =>
                response.translations[i].language.s = Chinese

\* C8: in a 200 result every entry carries the pinyin of the raw entry it
\* was made from, unchanged, whatever its language: pinyin is neither added
\* nor removed.
C8_PinyinAsReceived ==
    Done /\ response.status = 200 =>
        /\ Len(response.translations) = Len(Kept(Items))
        /\ \A i \in 1..Len(response.translations) :
               response.translations[i].pinyin = Items[Kept(Items)[i]].pinyin

C8_Witness ==
    /\ Done
    /\ response.status = 200
    /\ \E i \in 1..Len(response.translations) :
          /\ response.translations[i].language.s = English
          /\ response.translations[i].pinyin.t = "string"
    /\ \E i \in 1..Len(response.translations) :
          /\ response.translations[i].language.s = Malay
          /\ response.translations[i].pinyin.t = "undefined"

SchemaError ==
    \/ Parsed.threw
    \/ ~Truthy(Parsed.val.sourceLanguage)
    \/ Parsed.val.translations.t # "array"

\* C9: parse and schema errors are terminal: a call that returned text is the
\* last call of the request, the text it returned is not empty, and when the
\* text does not parse or lacks sourceLanguage or a translations array the
\* request ends with HTTP 500; a further call follows only a call that threw
\* or replied with nothing, and there are at most 5 calls.
C9_ParseErrorsTerminal ==
    /\ [](/\ aiCalls <= 5
          /\ (result.kind = "return" =>
                 /\ ~(result.text = <<>> \/ trimText(result.text) = <<>>)
                 /\ aiCalls = failCount + 1)
          /\ (Done /\ result.kind = "return" /\ SchemaError =>
                 response.status = 500))
    /\ [][/\ (result.kind = "return" => aiCalls' = aiCalls)
          /\ (aiCalls' # aiCalls => failCount = aiCalls)]_vars

C9_Witness ==
    /\ Done
    /\ result.kind = "return"
    /\ Parsed.threw
    /\ failCount = 2
    /\ aiCalls = 3
    /\ response.status = 500

====
